---- MODULE Spec2Model ----
(***************************************************************************)
(* Model of loglyzer (src/loglyzer/src/main.rs): the live tail engine      *)
(* (follow_file), the shared observation store (Arc<Mutex<Vec<LogEntry>>>),*)
(* the /data snapshot handler (serve), the extraction engine               *)
(* (RegexParser::parse), the time window filter (within_window) and the    *)
(* two top-level modes of main.                                            *)
(*                                                                         *)
(* Files are sequences of bytes.  A byte is one symbol of a small          *)
(* alphabet: "J" is a time text in the Apache layout denoting 15 Jan 2024, *)
(* "F" one denoting 1 Feb 2024, "x" a time text no layout accepts, "g" a   *)
(* byte the pattern does not match, "2", "4" and "9" the status texts 200, *)
(* 404 and 99999, "b" a byte that is not valid UTF-8, "\r" the carriage    *)
(* return and "\n" the line break.  The                                    *)
(* extraction pattern of the model is the unanchored regex                 *)
(* (?P<time>[JFx])(?P<status>[249])?.                                      *)
(***************************************************************************)
EXTENDS Integers, Sequences, FiniteSets, TLC

\* ---------------------------------------------------------------- bounds
MaxWrites == 3        \* bytes the external writers append during a run
MaxSnaps == 2         \* /data requests served during a run
MaxFrames == 4        \* frames the echo server reads from one connection
MaxTs == 3            \* largest timestamp a row of stock_prices carries
MaxConns == 3         \* connections a websocket server accepts during a run
MaxReads == 3         \* reads of a directory followed during a batch load

\* ------------------------------------------------------------- constants
BufCap == 8192        \* capacity of BufReader::new (std default)

Units == {"u1", "u2"} \* one tail unit per input path; unit u tails files[u]
Server == "srv"       \* the /data handler, as an owner of the mutex
Paths == << "u1", "u2" >>  \* collect_paths: the input paths in order
NL == "\n"
CR == "\r"
Bad == "b"            \* a byte that is not valid UTF-8

\* Option<T>: None is the empty sequence, Some(x) the one-element sequence
None == << >>
Some(x) == << x >>
IsSome(o) == o # << >>
Unwrap(o) == o[1]

\* ------------------------------------------------------- time and layouts
\* The two layouts of the program: date_fmt (line 340) and the layout of
\* the since/until bound strings (lines 349, 353).
ApacheFmt == "%d/%b/%Y:%H:%M:%S %z"
BoundFmt == "%Y-%m-%d %H:%M"

\* A format carries a UTC offset exactly when it has a %z item.
HasOffset(fmt) == fmt = ApacheFmt

\* Texts that denote an instant: the layout they are written in and the
\* instant, counted on a scale where 1 = 2024-01-01 00:00,
\* 2 = 2024-01-15, 3 = 2024-01-31 23:59, 4 = 2024-02-01.
TimeTexts == {"J", "F", "x"}
SinceText == "2024-01-01 00:00"
UntilText == "2024-01-31 23:59"

LayoutOf(s) ==
    CASE s = "J" -> ApacheFmt
      [] s = "F" -> ApacheFmt
      [] s = SinceText -> BoundFmt
      [] s = UntilText -> BoundFmt
      [] OTHER -> "none"

InstantOf(s) ==
    CASE s = SinceText -> 1
      [] s = "J" -> 2
      [] s = UntilText -> 3
      [] s = "F" -> 4
      [] OTHER -> 0

\* chrono DateTime::<FixedOffset>::parse_from_str(s, fmt).ok(): the text
\* must be written in the layout, and the parsed fields must determine an
\* offset, which they do only when the layout has an offset item.
ParseFromStr(s, fmt) ==
    IF LayoutOf(s) # fmt THEN None
    ELSE IF ~HasOffset(fmt) THEN None
    ELSE Some(InstantOf(s))

parse_time(s, fmt) == ParseFromStr(s, fmt)

\* main, lines 346-353: Option<String> -> Option<DateTime>
ParseBound(cfg) == IF IsSome(cfg) THEN ParseFromStr(Unwrap(cfg), BoundFmt) ELSE None

\* ------------------------------------------------------ extraction engine
RECURSIVE FirstMatch(_, _)
FirstMatch(line, i) ==
    IF i > Len(line) THEN 0
    ELSE IF line[i] \in TimeTexts THEN i
    ELSE FirstMatch(line, i + 1)

StatusTexts == {"2", "4", "9"}

\* str::parse::<u16>().ok() of a status text: 99999 exceeds u16
ParseU16(s) ==
    CASE s = "2" -> Some(200)
      [] s = "4" -> Some(404)
      [] OTHER -> None

\* A parser that makes an entry of a line the pattern does not match.
UnmatchedAsEntry(line) ==
    Some([raw |-> line, ip |-> None, url |-> None, status |-> None,
          time |-> None])

\* line 106: `self.re.captures(line)?` returns None from parse
Unmatched(line) == None

\* A parser that rejects the line when a group fails to convert
\* (`?` on the conversions in place of and_then).
ParseStrict(line) ==
    LET k == FirstMatch(line, 1) IN
    IF k = 0 THEN None
    ELSE IF ~IsSome(parse_time(line[k], ApacheFmt)) THEN None
    ELSE IF k < Len(line) /\ line[k + 1] \in StatusTexts
            /\ ~IsSome(ParseU16(line[k + 1])) THEN None
    ELSE Some([raw |-> line, ip |-> None, url |-> None,
               status |-> IF k < Len(line) /\ line[k + 1] \in StatusTexts
                          THEN ParseU16(line[k + 1]) ELSE None,
               time |-> parse_time(line[k], ApacheFmt)])

\* RegexParser::parse: None when the pattern matches nowhere in the line;
\* otherwise a LogEntry whose raw is the line.  The time group is the
\* leftmost time text; the status group is the status text right after it,
\* if there is one.  The pattern has no ip or url group, so these fields
\* are None.
Parse(line) ==
    LET k == FirstMatch(line, 1) IN
    IF k = 0 THEN Unmatched(line)
    ELSE Some([raw |-> line, ip |-> None, url |-> None,
               status |-> IF k < Len(line) /\ line[k + 1] \in StatusTexts
                          THEN ParseU16(line[k + 1]) ELSE None,
               time |-> parse_time(line[k], ApacheFmt)])

\* A comparison that also holds between equal instants.
NotAfter(a, b) == a <= b

\* lines 198 and 203: `t < *s` and `t > *u`
Earlier(a, b) == a < b

\* A filter that fails closed: a record without a timestamp is rejected as
\* soon as a bound is set.
within_window_closed(entry, s, u) ==
    IF IsSome(entry.time)
    THEN /\ ~(IsSome(s) /\ Unwrap(entry.time) < Unwrap(s))
         /\ ~(IsSome(u) /\ Unwrap(entry.time) > Unwrap(u))
    ELSE ~IsSome(s) /\ ~IsSome(u)

\* lines 196-214
within_window(entry, s, u) ==
    IF IsSome(entry.time)
    THEN /\ ~(IsSome(s) /\ Earlier(Unwrap(entry.time), Unwrap(s)))
         /\ ~(IsSome(u) /\ Earlier(Unwrap(u), Unwrap(entry.time)))
    ELSE TRUE

\* str::trim_end_matches('\n')
RECURSIVE TrimEndNL(_)
TrimEndNL(s) ==
    IF Len(s) > 0 /\ s[Len(s)] = NL THEN TrimEndNL(SubSeq(s, 1, Len(s) - 1))
    ELSE s

IsPrefix(s, t) == Len(s) <= Len(t) /\ SubSeq(t, 1, Len(s)) = s

Min(a, b) == IF a < b THEN a ELSE b

\* ------------------------------------------------------------------ state
VARIABLES
    files,      \* files[i]: the bytes of input path i
    openable,   \* openable[i]: File::open(path i) succeeds
    nwrites,    \* bytes appended by the external writers so far
    follow,     \* cfg.follow
    cfgServe,   \* cfg.serve is Some(port)
    cfgSince,   \* cfg.since : Option<String>
    cfgUntil,   \* cfg.until : Option<String>
    patternOk,  \* the extraction pattern compiles (Regex::new is Ok)
    portFree,   \* TcpListener::bind on the configured port succeeds
    isDir,      \* isDir[i]: path i is a directory (opens, every read fails)
    since,      \* main's since : Option<DateTime>
    until,      \* main's until : Option<DateTime>
    mpc,        \* position of main
    pc,         \* pc[u]: position of tail unit u in follow_file
    pos,        \* pos[u]: the Tail Cursor (let mut pos)
    fpos,       \* fpos[u]: offset of the unit's File handle
    rpos,       \* rpos[u]: offset of the next byte the BufReader delivers
    buf,        \* buf[u]: the String read_line appends to
    bufOff,     \* bufOff[u]: offset in the file of buf's first byte
    wlen,       \* wlen[u]: the Vec length read by the push in progress
    store,      \* the Vec<LogEntry> behind the mutex
    lock,       \* the set of tasks holding a guard of the mutex
    echo,       \* echo[u]: the lines unit u has printed on the console
    spc,        \* position of the serve task
    hpc,        \* position of the /data handler
    data,       \* the handler's clone of the store (latest snapshot)
    nsnaps,     \* /data requests accepted so far
    seen,       \* the body of the latest response the client received
    entries,    \* main's entries, the result of load_entries
    summary,    \* main's summary, Some(Summary) once summarize has run
    li,         \* load_entries: index in paths of the current path
    lopen,      \* load_entries: a reader is open on the current path
    lpos,       \* load_entries: offset of the reader in the current file
    nreads,     \* history: items lines() produced for the current file
    line,       \* extract/passes: the line given to the extraction engine
    lo,         \* extract/passes: the lower bound given to the filter
    hi,         \* extract/passes: the upper bound given to the filter
    rec,        \* extract/passes: the result of RegexParser::parse
    res,        \* extract/passes: Some(result of within_window)
    ppc,        \* extract/passes: position of the caller
    log,        \* history: for each completed push, its unit and byte range
    startLen,   \* history: startLen[u] is the file length at tail start
    pollLen,    \* history: the file length when unit u's poll began
    tracePolls, \* history switch: pollLen is recorded in this run
    src,        \* one line, two readers: the text of a source line
    term,       \* one line, two readers: its line terminator
    tailRec,    \* one line, two readers: Some(what the tail unit parsed)
    batchRec,   \* one line, two readers: Some(what the loader parsed)
    wsServer,   \* websocket: which server runs (ws_broadcast, ws_dashboard)
    wpc,        \* websocket: wpc[t] is the position of handle_client task t
    conn,       \* websocket: connection_count (AtomicUsize)
    wexit,      \* websocket history: the path by which task t returned
    dbLatest,   \* poller: latest timestamp of each pair in stock_prices, 0 if none
    last_seen,  \* poller: the HashMap of database_poller
    qpc,        \* poller: position of database_poller
    rows,       \* poller: the result of fetch_all
    todo,       \* poller: the pairs of the result not yet visited
    sent,       \* poller history: the timestamps given to tx.send, per pair
    failed,     \* poller history: a poll has returned Err
    apc,        \* aggregator: position of main
    asym,       \* aggregator: index of the symbol being fetched
    ares,       \* aggregator: results of the two joined fetches
    handler,    \* aggregator: the runtime's SIGINT handler is installed
    listening,  \* aggregator: a ctrl_c() future is registered
    notified,   \* aggregator: the registered ctrl_c() future is ready
    tickReady,  \* aggregator: fetch_interval.tick() is ready
    poolClosed, \* aggregator: pool.close() has run
    gotSignal,  \* aggregator history: a Ctrl-C reached the process
    epc,        \* echo server: position of handle_connection
    etext,      \* echo server: Some(the text just read), not yet sent back
    nframes,    \* echo server: frames read so far
    heard,      \* echo server history: the texts read, in order
    wire,       \* echo server history: the messages sent, in order
    lastFrame,  \* echo server history: the kind of the frame last read
    eexit,      \* echo server history: the path by which the handler returned
    beginLen    \* history: pushes completed when the current request began

vars == << files, openable, nwrites, follow, cfgServe, cfgSince, cfgUntil,
           patternOk, portFree, isDir, li, lopen, lpos, nreads, since, until, mpc, pc, pos, fpos, rpos, buf, bufOff, wlen, store,
           lock, echo, spc, hpc, data, nsnaps, seen, entries, summary, line,
           lo, hi, rec, res, ppc, log, startLen, pollLen, tracePolls,
           beginLen, src, term, tailRec, batchRec, wsServer, wpc, conn,
           wexit, dbLatest, last_seen, qpc, rows, todo, sent, failed, apc,
           asym, ares, handler, listening, notified, tickReady, poolClosed,
           gotSignal, epc, etext, nframes, heard, wire, lastFrame, eexit >>

cfgVars == << openable, follow, cfgServe, cfgSince, cfgUntil, patternOk,
             portFree, isDir, tracePolls >>
unitVars == << pc, pos, fpos, rpos, buf, bufOff, wlen, startLen,
              pollLen >>
serveVars == << spc, hpc, data, nsnaps, seen, beginLen >>
batchVars == << entries, summary, li, lopen, lpos, nreads >>
pureVars == << line, lo, hi, rec, res, ppc >>
lineVars == << src, term, tailRec, batchRec >>
wsVars == << wsServer, wpc, conn, wexit >>
dbVars == << dbLatest, last_seen, qpc, rows, todo, sent, failed >>
aggVars == << apc, asym, ares, handler, listening, notified, tickReady,
             poolClosed, gotSignal >>
echoVars == << epc, etext, nframes, heard, wire, lastFrame, eexit >>
sideVars == << lineVars, wsVars, dbVars, aggVars, echoVars >>

\* Bytes the external writers append in follow mode.
WriterBytes == {"J", NL}

\* The writer of the first file appends text and line breaks, the writer of
\* the second has not ended its line yet.
Appends(f) == IF f = "u1" THEN WriterBytes ELSE WriterBytes \ {NL}

\* The contents of the input files when the process starts: the first
\* has a line already, the second is empty.
Backlog(f) == IF f = "u1" THEN << "J", NL >> ELSE << >>

\* The (since, until) settings of a follow run.
FollowBounds == { << Some(SinceText), Some(UntilText) >> }

\* The state every run starts in, whatever its configuration.
InitRest ==
    /\ nwrites = 0
    /\ since = None
    /\ until = None
    /\ mpc = "start"
    /\ pc = [u \in Units |-> "unspawned"]
    /\ pos = [u \in Units |-> 0]
    /\ fpos = [u \in Units |-> 0]
    /\ rpos = [u \in Units |-> 0]
    /\ buf = [u \in Units |-> << >>]
    /\ bufOff = [u \in Units |-> 0]
    /\ wlen = [u \in Units |-> 0]
    /\ store = << >>
    /\ lock = {}
    /\ echo = [u \in Units |-> << >>]
    /\ spc = "off"
    /\ hpc = "idle"
    /\ data = << >>
    /\ nsnaps = 0
    /\ seen = << >>
    /\ entries = << >>
    /\ summary = None
    /\ li = 0
    /\ lopen = FALSE
    /\ lpos = 0
    /\ nreads = 0
    /\ log = << >>
    /\ startLen = [u \in Units |-> 0]
    /\ pollLen = [u \in Units |-> 0]
    /\ beginLen = 0

\* No caller of the extraction engine outside main.
InitIdle ==
    /\ line = << >>
    /\ lo = None
    /\ hi = None
    /\ rec = None
    /\ res = None
    /\ ppc = "idle"

\* No source line is under comparison.
InitLineIdle ==
    /\ src = << >>
    /\ term = << >>
    /\ tailRec = None
    /\ batchRec = None

\* The handle_client tasks of a websocket server, one per connection.
Tasks == 1..MaxConns

\* No websocket server runs.
InitWsIdle ==
    /\ wsServer = "none"
    /\ wpc = [t \in Tasks |-> "none"]
    /\ conn = 0
    /\ wexit = [t \in Tasks |-> "none"]

\* The (symbol, source) pairs of stock_prices, in the order of the query.
Pairs == << "p1", "p2" >>

PairSet == { Pairs[i] : i \in 1..Len(Pairs) }

\* No database poller runs.
InitDbIdle ==
    /\ dbLatest = [p \in PairSet |-> 0]
    /\ last_seen = [p \in PairSet |-> << >>]
    /\ qpc = "off"
    /\ rows = [p \in PairSet |-> 0]
    /\ todo = << >>
    /\ sent = [p \in PairSet |-> << >>]
    /\ failed = FALSE

\* No aggregator runs.
InitAggIdle ==
    /\ apc = "off"
    /\ asym = 0
    /\ ares = << >>
    /\ handler = FALSE
    /\ listening = FALSE
    /\ notified = FALSE
    /\ tickReady = FALSE
    /\ poolClosed = FALSE
    /\ gotSignal = FALSE

\* No echo server runs.
InitEchoIdle ==
    /\ epc = "off"
    /\ etext = << >>
    /\ nframes = 0
    /\ heard = << >>
    /\ wire = << >>
    /\ lastFrame = "none"
    /\ eexit = "none"

\* Nothing runs beside main.
InitSideIdle ==
    /\ InitLineIdle
    /\ InitWsIdle
    /\ InitDbIdle
    /\ InitAggIdle
    /\ InitEchoIdle

\* A follow run: cfg.follow is true.
InitFollow ==
    /\ files = [f \in Units |-> Backlog(f)]
    /\ openable \in [Units -> BOOLEAN]
    /\ follow = TRUE
    /\ cfgServe \in BOOLEAN
    /\ \E b \in FollowBounds : cfgSince = b[1] /\ cfgUntil = b[2]
    /\ patternOk \in BOOLEAN
    /\ portFree \in (IF cfgServe THEN BOOLEAN ELSE {TRUE})
    /\ isDir = [f \in Units |-> FALSE]
    /\ InitRest
    /\ InitIdle
    /\ InitSideIdle

Init == InitFollow /\ tracePolls = FALSE

\* A follow run whose polls are recorded.
InitPoll == InitFollow /\ tracePolls = TRUE

\* ------------------------------------------------------------ environment
\* A process outside loglyzer appends one byte to an input file of a follow
\* run; the files of a batch run are taken as they are when it starts.
Write(f, b) ==
    /\ follow
    /\ mpc \in {"start", "join"}
    /\ nwrites < MaxWrites
    /\ files' = [files EXCEPT ![f] = Append(@, b)]
    /\ nwrites' = nwrites + 1
    /\ UNCHANGED << sideVars, pureVars, batchVars, cfgVars, since, until, mpc, unitVars, store, lock, echo,
                    serveVars, log >>

\* ------------------------------------------------------------------- main
\* A build_regex that swallows the error of Regex::new.
RegexLenient(ok) == TRUE

\* lines 186-190 and 336: Regex::new(&pat).expect(..) returns only when the
\* pattern compiles.
RegexBuilt(ok) == ok

\* lines 189 and 336: the pattern does not compile; expect panics in main
\* and the process ends with an error before anything else is done.
MainPanicRegex ==
    /\ mpc = "start"
    /\ ~RegexBuilt(patternOk)
    /\ mpc' = "aborted"
    /\ UNCHANGED << sideVars, pureVars, batchVars, files, nwrites, cfgVars, since,
                    until, unitVars, store, lock, echo, serveVars, log >>

\* A main that takes the follow branch whatever the configuration says.
FollowAlways(f) == TRUE

\* line 358: `if cfg.follow.unwrap_or(false)`; the branch ends with
\* `return` (line 379), so the rest of main is the batch run.
FollowMode(f) == f

\* main in follow mode, lines 346-376: parse the bounds, spawn one
\* follow_file task per path and the serve task when a port is configured.
MainStartFollow ==
    /\ mpc = "start"
    /\ RegexBuilt(patternOk)
    /\ FollowMode(follow)
    /\ since' = ParseBound(cfgSince)
    /\ until' = ParseBound(cfgUntil)
    /\ pc' = [u \in Units |-> "open"]
    /\ spc' = IF cfgServe THEN "bind" ELSE "off"
    /\ mpc' = "join"
    /\ UNCHANGED << sideVars, pureVars, batchVars, files, nwrites, cfgVars, pos, fpos, rpos, buf, bufOff,
                    wlen, startLen, pollLen, store, lock, echo, hpc, data, nsnaps,
                    seen, beginLen, log >>

\* main, lines 378-379: join_all(handles) completes once every follow_file
\* task has returned; main then returns, the process exits and the runtime
\* drops the serve task.
MainJoin ==
    /\ mpc = "join"
    /\ \A u \in Units : pc[u] = "returned"
    /\ mpc' = "exited"
    /\ spc' = IF spc \in {"off", "panicked"} THEN spc ELSE "killed"
    /\ UNCHANGED << sideVars, pureVars, batchVars, files, nwrites, cfgVars, since, until, unitVars, store,
                    lock, echo, hpc, data, nsnaps, seen,
                    beginLen, log >>

\* A lock that never waits: every caller gets a guard at once.
CanLockAlways(l) == TRUE

\* ------------------------------------------------------------ the mutex
\* Mutex::lock returns a guard only when no other guard exists.
CanLock(l) == l = {}

\* A guard bound to a variable that outlives the statement.
GuardKept(l, who) == l

\* The guard of `state.lock().unwrap().push(entry)` and of
\* `state.lock().unwrap().clone()` is a temporary: it is dropped at the end
\* of the statement that created it.
GuardDropped(l, who) == l \ {who}

\* Vec::insert(0, e) in place of push.
VecPushFront(v, n, e) == << e >> \o v

\* Vec::push on a vector whose length was read as n: the element goes to
\* slot n + 1 and the length becomes n + 1.
VecPush(v, n, e) == SubSeq(v, 1, Min(n, Len(v))) \o << e >>

\* History: the length of unit u's file now, at the start of a poll.
PollStart(u) == IF tracePolls THEN Len(files[u]) ELSE 0

\* A cursor that starts at the beginning of the file.
InitialCursorZero(f) == 0

\* ---------------------------------------------------------- follow_file
\* line 307: the cursor a unit starts from
InitialCursor(f) == Len(files[f])

\* A poll that rewinds to the beginning of the file.
SeekStartZero(u) == 0

\* line 309: the offset a poll starts reading from
SeekStart(u) == pos[u]

\* The number of bytes read by this poll in place of the offset.
StreamPositionRelative(u) == fpos[u] - pos[u]

\* line 324: file.seek(SeekFrom::Current(0))
StreamPosition(u) == fpos[u]

\* lines 300-306: File::open; on failure the task prints and returns.
Open(u) ==
    /\ mpc = "join"
    /\ pc[u] = "open"
    /\ pc' = [pc EXCEPT ![u] = IF openable[u] THEN "seekend" ELSE "returned"]
    /\ UNCHANGED << sideVars, pureVars, batchVars, files, nwrites, cfgVars, since, until, mpc, pos, fpos,
                    rpos, buf, bufOff, wlen, startLen, pollLen, store, lock, echo,
                    serveVars, log >>

\* lines 307-311: pos = end of file; first iteration of the loop: seek to
\* pos, fresh BufReader, empty buf.
SeekEnd(u) ==
    /\ mpc = "join"
    /\ pc[u] = "seekend"
    /\ pos' = [pos EXCEPT ![u] = InitialCursor(u)]
    /\ startLen' = [startLen EXCEPT ![u] = Len(files[u])]
    /\ pollLen' = [pollLen EXCEPT ![u] = PollStart(u)]
    /\ fpos' = [fpos EXCEPT ![u] = InitialCursor(u)]
    /\ rpos' = [rpos EXCEPT ![u] = InitialCursor(u)]
    /\ buf' = [buf EXCEPT ![u] = << >>]
    /\ bufOff' = [bufOff EXCEPT ![u] = InitialCursor(u)]
    /\ pc' = [pc EXCEPT ![u] = "read"]
    /\ UNCHANGED << sideVars, pureVars, batchVars, files, nwrites, cfgVars, since, until, mpc, wlen, store,
                    lock, echo, serveVars, log >>

\* Offset just after the first line break in files[u] at or after offset
\* from and before offset to; 0 when there is none.
RECURSIVE LineEnd(_, _, _)
LineEnd(u, from, to) ==
    IF from >= to THEN 0
    ELSE IF files[u][from + 1] = NL THEN from + 1
    ELSE LineEnd(u, from + 1, to)

\* line 312, one step of reader.read_line(&mut buf).  The BufReader holds
\* the bytes [rpos, fpos) of the file.  When it holds a line break, the
\* line is moved to buf and read_line returns.  Otherwise the bytes it
\* holds are moved to buf and it reads the file: at most BufCap bytes from
\* fpos.  Bytes with a line break complete the line; bytes without one are
\* moved to buf and read_line goes on; no byte means end of file, and
\* read_line returns what buf has (lines 313-315: 0 bytes ends the poll,
\* and line 324 stores the stream position in pos).
ReadLine(u) ==
    /\ mpc = "join"
    /\ pc[u] = "read"
    /\ LET n == Min(BufCap, Len(files[u]) - fpos[u])
           e == LineEnd(u, rpos[u], fpos[u] + n)
           got == buf[u] \o SubSeq(files[u], rpos[u] + 1, fpos[u] + n) IN
       IF e > 0 /\ e <= fpos[u] THEN
           /\ buf' = [buf EXCEPT ![u] = @ \o SubSeq(files[u], rpos[u] + 1, e)]
           /\ rpos' = [rpos EXCEPT ![u] = e]
           /\ pc' = [pc EXCEPT ![u] = "parse"]
           /\ UNCHANGED << fpos, pos, pollLen >>
       ELSE IF e > 0 THEN
           /\ buf' = [buf EXCEPT ![u] = @ \o SubSeq(files[u], rpos[u] + 1, e)]
           /\ rpos' = [rpos EXCEPT ![u] = e]
           /\ fpos' = [fpos EXCEPT ![u] = @ + n]
           /\ pc' = [pc EXCEPT ![u] = "parse"]
           /\ UNCHANGED << pos, pollLen >>
       ELSE IF n > 0 THEN
           /\ buf' = [buf EXCEPT ![u] = got]
           /\ rpos' = [rpos EXCEPT ![u] = fpos[u] + n]
           /\ fpos' = [fpos EXCEPT ![u] = @ + n]
           /\ UNCHANGED << pos, pc, pollLen >>
       ELSE IF got # << >> THEN
           /\ buf' = [buf EXCEPT ![u] = got]
           /\ rpos' = [rpos EXCEPT ![u] = fpos[u]]
           /\ pc' = [pc EXCEPT ![u] = "parse"]
           /\ UNCHANGED << fpos, pos, pollLen >>
       ELSE
           /\ pos' = [pos EXCEPT ![u] = StreamPosition(u)]
           /\ pc' = [pc EXCEPT ![u] = "sleep"]
           /\ pollLen' = [pollLen EXCEPT ![u] = 0]
           /\ UNCHANGED << fpos, rpos, buf >>
    /\ UNCHANGED << sideVars, pureVars, batchVars, files, nwrites, cfgVars, since, until, mpc,
                    bufOff, wlen, startLen, store, lock, echo, serveVars,
                    log >>

\* A unit that prints nothing.
PrintlnNothing(out, e) == out

\* line 318: println!("{}", entry.raw)
Println(out, e) == Append(out, e.raw)

\* The entry of lines 316-317 for the line in buf, None when the line is
\* rejected by the parser or by the window.
Accepted(u) ==
    LET r == Parse(TrimEndNL(buf[u])) IN
    IF IsSome(r) /\ within_window(Unwrap(r), since, until) THEN r ELSE None

\* lines 316-318 and 322: parse the line, filter it, and println! it when
\* accepted; a rejected line is dropped by buf.clear().
ParseLine(u) ==
    /\ mpc = "join"
    /\ pc[u] = "parse"
    /\ IF IsSome(Accepted(u)) THEN
           /\ echo' = [echo EXCEPT ![u] = Println(@, Unwrap(Accepted(u)))]
           /\ pc' = [pc EXCEPT ![u] = "lock"]
           /\ UNCHANGED << buf, bufOff >>
       ELSE
           /\ buf' = [buf EXCEPT ![u] = << >>]
           /\ bufOff' = [bufOff EXCEPT ![u] = rpos[u]]
           /\ pc' = [pc EXCEPT ![u] = "read"]
           /\ UNCHANGED echo
    /\ UNCHANGED << sideVars, pureVars, batchVars, files, nwrites, cfgVars, since, until, mpc, pos, fpos,
                    rpos, wlen, startLen, pollLen, store, lock, serveVars, log >>

\* line 319, state.lock(): blocks until the mutex is free; push then reads
\* the length of the vector.
LockStore(u) ==
    /\ mpc = "join"
    /\ pc[u] = "lock"
    /\ CanLock(lock)
    /\ lock' = lock \cup {u}
    /\ wlen' = [wlen EXCEPT ![u] = Len(store)]
    /\ pc' = [pc EXCEPT ![u] = "push"]
    /\ UNCHANGED << sideVars, pureVars, batchVars, files, nwrites, cfgVars, since, until, mpc, pos, fpos,
                    rpos, buf, bufOff, startLen, pollLen, store, echo, serveVars, log >>

\* line 319, push(entry) and the drop of the guard; line 322, buf.clear().
PushEntry(u) ==
    /\ mpc = "join"
    /\ pc[u] = "push"
    /\ store' = VecPush(store, wlen[u], Unwrap(Accepted(u)))
    /\ log' = Append(log, [u |-> u, off |-> bufOff[u], end |-> rpos[u]])
    /\ lock' = GuardDropped(lock, u)
    /\ wlen' = [wlen EXCEPT ![u] = 0]
    /\ buf' = [buf EXCEPT ![u] = << >>]
    /\ bufOff' = [bufOff EXCEPT ![u] = rpos[u]]
    /\ pc' = [pc EXCEPT ![u] = "read"]
    /\ UNCHANGED << sideVars, pureVars, batchVars, files, nwrites, cfgVars, since, until, mpc,
                    pos, fpos, rpos, startLen, pollLen, echo, serveVars >>

\* lines 325 and 309-311: the sleep ends; seek to pos, fresh BufReader,
\* empty buf.
Sleep(u) ==
    /\ mpc = "join"
    /\ pc[u] = "sleep"
    /\ fpos' = [fpos EXCEPT ![u] = SeekStart(u)]
    /\ rpos' = [rpos EXCEPT ![u] = SeekStart(u)]
    /\ bufOff' = [bufOff EXCEPT ![u] = SeekStart(u)]
    /\ buf' = [buf EXCEPT ![u] = << >>]
    /\ pollLen' = [pollLen EXCEPT ![u] = PollStart(u)]
    /\ pc' = [pc EXCEPT ![u] = "read"]
    /\ UNCHANGED << sideVars, pureVars, batchVars, files, nwrites, cfgVars, since, until, mpc, pos, wlen,
                    startLen, store, lock, echo, serveVars, log >>

\* ------------------------------------------------------------------ serve
\* Where a panic in serve leaves main: serve is awaited by main in batch
\* mode (main is at "serving") and spawned in follow mode (main is at
\* "join").
PanicInServe(m) == IF m = "serving" THEN "aborted" ELSE m

\* lines 283-285: serve binds its listener.  When bind fails, unwrap
\* panics.  In batch mode serve runs inside main (line 401), so the panic
\* ends the process with an error.  In follow mode serve runs in a task of
\* its own (line 375): the panic ends that task, and main and the tail
\* units go on.
Bind ==
    /\ mpc \in {"join", "serving"}
    /\ spc = "bind"
    /\ IF portFree
       THEN /\ spc' = "listening"
            /\ UNCHANGED mpc
       ELSE /\ spc' = "panicked"
            /\ mpc' = PanicInServe(mpc)
    /\ UNCHANGED << sideVars, pureVars, batchVars, files, nwrites, cfgVars, since,
                    until, unitVars, store, lock, echo, hpc, data, nsnaps,
                    seen, beginLen, log >>

\* A GET /data request arrives and its handler (lines 274-280) starts.
Request ==
    /\ mpc \in {"join", "serving"}
    /\ spc = "listening"
    /\ hpc = "idle"
    /\ nsnaps < MaxSnaps
    /\ nsnaps' = nsnaps + 1
    /\ beginLen' = Len(log)
    /\ hpc' = "lock"
    /\ UNCHANGED << sideVars, pureVars, batchVars, files, nwrites, cfgVars, since, until, mpc, unitVars,
                    store, lock, echo, spc, data, seen, log >>

\* line 277, state.lock()
HandlerLock ==
    /\ mpc \in {"join", "serving"}
    /\ spc \in {"listening", "closing"}
    /\ hpc = "lock"
    /\ CanLock(lock)
    /\ lock' = lock \cup {Server}
    /\ hpc' = "clone"
    /\ UNCHANGED << sideVars, pureVars, batchVars, files, nwrites, cfgVars, since, until, mpc, unitVars,
                    store, echo, spc, data, nsnaps, seen, beginLen,
                    log >>

\* line 277, .clone() and the drop of the guard
HandlerClone ==
    /\ mpc \in {"join", "serving"}
    /\ spc \in {"listening", "closing"}
    /\ hpc = "clone"
    /\ data' = store
    /\ lock' = GuardDropped(lock, Server)
    /\ hpc' = "respond"
    /\ UNCHANGED << sideVars, pureVars, batchVars, files, nwrites, cfgVars, since, until, mpc, unitVars,
                    store, echo, spc, nsnaps, seen, beginLen, log >>

\* line 278, Json(data) is written to the connection
HandlerRespond ==
    /\ mpc \in {"join", "serving"}
    /\ spc \in {"listening", "closing"}
    /\ hpc = "respond"
    /\ seen' = data
    /\ beginLen' = 0
    /\ hpc' = "idle"
    /\ UNCHANGED << sideVars, pureVars, batchVars, files, nwrites, cfgVars, since, until, mpc,
                    unitVars, store, lock, echo, spc, data, nsnaps, log >>

\* Where the return of serve leaves main: in batch mode main awaited it
\* (line 401) and returns; in follow mode main is in join_all (line 378).
ReturnFromServe(m) == IF m = "serving" THEN "exited" ELSE m

\* The process receives SIGINT.  serve's shutdown future (lines 286-288)
\* asked tokio for ctrl_c when the server started, which replaced the
\* default action of the signal for the rest of the process's life: when
\* the server listens, the future completes and the server stops accepting
\* connections.  Before that the default action ends the process.  After
\* it the signal has no listener and nothing happens.
Interrupt ==
    /\ mpc \in {"start", "join", "loading", "loaded", "seed", "serving"}
    /\ spc \notin {"closing", "stopped"}
    /\ IF spc = "listening"
       THEN /\ spc' = "closing"
            /\ UNCHANGED mpc
       ELSE /\ mpc' = "killed"
            /\ UNCHANGED spc
    /\ UNCHANGED << sideVars, pureVars, batchVars, files, nwrites, cfgVars, since,
                    until, unitVars, store, lock, echo, hpc, data, nsnaps,
                    seen, beginLen, log >>

\* lines 286-290: graceful shutdown ends when the requests in flight have
\* been answered; serve returns.
ServeReturn ==
    /\ mpc \in {"join", "serving"}
    /\ spc = "closing"
    /\ hpc = "idle"
    /\ spc' = "stopped"
    /\ mpc' = ReturnFromServe(mpc)
    /\ UNCHANGED << sideVars, pureVars, batchVars, files, nwrites, cfgVars, since,
                    until, unitVars, store, lock, echo, hpc, data, nsnaps,
                    seen, beginLen, log >>

\* ---------------------------------------------------------- specification
Next ==
    \/ \E f \in Units : \E b \in Appends(f) : Write(f, b)
    \/ MainStartFollow
    \/ MainPanicRegex
    \/ MainJoin
    \/ \E u \in Units : Open(u)
    \/ \E u \in Units : SeekEnd(u)
    \/ \E u \in Units : ReadLine(u)
    \/ \E u \in Units : ParseLine(u)
    \/ \E u \in Units : LockStore(u)
    \/ \E u \in Units : PushEntry(u)
    \/ \E u \in Units : Sleep(u)
    \/ Bind
    \/ Request
    \/ HandlerLock
    \/ HandlerClone
    \/ HandlerRespond

Spec == Init /\ [][Next]_vars

SpecPoll == InitPoll /\ [][Next]_vars

\* A follow run that may be interrupted.
NextInterrupt ==
    \/ Next
    \/ Interrupt
    \/ ServeReturn

\* The steps of unit u: its task is polled again whenever it can go on.
UnitStep(u) ==
    \/ Open(u)
    \/ SeekEnd(u)
    \/ ReadLine(u)
    \/ ParseLine(u)
    \/ LockStore(u)
    \/ PushEntry(u)
    \/ Sleep(u)

\* A follow run without the serving interface: main and the tail units.
InitTail ==
    /\ InitFollow
    /\ cfgServe = FALSE
    /\ patternOk = TRUE
    /\ tracePolls = FALSE

NextTail ==
    \/ \E f \in Units : \E b \in Appends(f) : Write(f, b)
    \/ MainStartFollow
    \/ MainJoin
    \/ \E u \in Units : UnitStep(u)

SpecTail == InitTail /\ [][NextTail]_vars

\* The tokio runtime runs every task that can go on: main, each tail unit,
\* serve and its handler.  The writers, the clients and the signal are
\* under no obligation.
FairInterrupt ==
    /\ Init
    /\ [][NextInterrupt]_vars
    /\ WF_vars(MainStartFollow \/ MainPanicRegex \/ MainJoin)
    /\ \A u \in Units : WF_vars(UnitStep(u))
    /\ WF_vars(Bind \/ HandlerLock \/ HandlerClone \/ HandlerRespond
                 \/ ServeReturn)

\* ------------------------------------------------------------- batch mode
\* BufRead::lines: the file cut at its line breaks; a line loses its "\n"
\* and, when it had one, a "\r" before it; bytes after the last line break
\* are a last line.
StripCR(l) == IF Len(l) > 0 /\ l[Len(l)] = CR THEN SubSeq(l, 1, Len(l) - 1) ELSE l

RECURSIVE LinesAcc(_, _, _, _)
LinesAcc(b, i, cur, acc) ==
    IF i > Len(b) THEN (IF cur = << >> THEN acc ELSE Append(acc, cur))
    ELSE IF b[i] = NL THEN LinesAcc(b, i + 1, << >>, Append(acc, StripCR(cur)))
    ELSE LinesAcc(b, i + 1, Append(cur, b[i]), acc)

Lines(b) == LinesAcc(b, 1, << >>, << >>)

\* read_line is Ok only when the bytes of the line are valid UTF-8; the
\* Err item of an undecodable line is dropped by flatten (line 226).
Decodable(l) == \A i \in 1..Len(l) : l[i] # Bad

\* lines 226-232: the entries of the lines that parse and pass the window
RECURSIVE KeepLines(_, _, _, _)
KeepLines(ls, i, s, u) ==
    IF i > Len(ls) THEN << >>
    ELSE LET r == IF Decodable(ls[i]) THEN Parse(ls[i]) ELSE None IN
         (IF IsSome(r) /\ within_window(Unwrap(r), s, u) THEN r ELSE << >>)
         \o KeepLines(ls, i + 1, s, u)

\* lines 216-236 as a function of readable files: the paths in order; a
\* path that does not open is skipped
RECURSIVE LoadFrom(_, _, _, _)
LoadFrom(paths, i, s, u) ==
    IF i > Len(paths) THEN << >>
    ELSE (IF openable[paths[i]] THEN KeepLines(Lines(files[paths[i]]), 1, s, u)
          ELSE << >>)
         \o LoadFrom(paths, i + 1, s, u)

load_entries(paths, s, u) == LoadFrom(paths, 1, s, u)

\* `*by_status.entry(s).or_insert(1) += 1`
BumpFromOne(by, c) ==
    [x \in DOMAIN by \cup {c} |->
        IF x \in DOMAIN by THEN (IF x = c THEN by[x] + 1 ELSE by[x]) ELSE 2]

\* line 242: `*by_status.entry(s).or_insert(0) += 1`
Bump(by, c) ==
    [x \in DOMAIN by \cup {c} |->
        IF x \in DOMAIN by THEN (IF x = c THEN by[x] + 1 ELSE by[x]) ELSE 1]

\* lines 240-244: the loop over the entries
RECURSIVE CountStatus(_, _, _)
CountStatus(es, i, by) ==
    IF i > Len(es) THEN by
    ELSE IF IsSome(es[i].status)
         THEN CountStatus(es, i + 1, Bump(by, Unwrap(es[i].status)))
         ELSE CountStatus(es, i + 1, by)

\* lines 238-249
summarize(es) ==
    [total |-> Len(es), by_status |-> CountStatus(es, 1, << >>)]

\* Contents of an input file of a batch run.
BatchFiles == { << >>,
                << "J", "2", NL, "g", NL, "F", "4", NL >>,
                << "J", "2", NL, "J", "2" >>,
                << "x", "9", NL, "b", "J", NL, "F" >>,
                << "g", NL, "x", "2", NL >> }

BadBoundText == "yesterday"

BoundTexts == { None, Some(SinceText), Some(UntilText), Some(BadBoundText) }

\* A batch run: cfg.follow is false.
InitBatch ==
    /\ files \in [Units -> BatchFiles]
    /\ openable \in [Units -> BOOLEAN]
    /\ follow = FALSE
    /\ cfgServe \in BOOLEAN
    /\ cfgSince \in BoundTexts
    /\ cfgUntil \in BoundTexts
    /\ patternOk \in BOOLEAN
    /\ portFree \in (IF cfgServe THEN BOOLEAN ELSE {TRUE})
    /\ isDir \in {d \in [Units -> BOOLEAN] :
                     \A f \in Units : d[f] => openable[f] /\ files[f] = << >>}
    /\ tracePolls = FALSE
    /\ InitRest
    /\ InitIdle
    /\ InitSideIdle

\* main, lines 346-356 and 382: parse the bounds and call load_entries,
\* which starts with no entry (line 222) at the first path.
MainStartBatch ==
    /\ mpc = "start"
    /\ RegexBuilt(patternOk)
    /\ ~FollowMode(follow)
    /\ since' = ParseBound(cfgSince)
    /\ until' = ParseBound(cfgUntil)
    /\ entries' = << >>
    /\ li' = 1
    /\ mpc' = "loading"
    /\ UNCHANGED << sideVars, pureVars, summary, lopen, lpos, nreads, files, nwrites,
                    cfgVars, unitVars, store, lock, echo, serveVars, log >>

\* A loader that returns at the first path it cannot open.
AbortOnOpenFailure(i) == Len(Paths) + 1

\* lines 223-224: `if let Ok(f) = File::open(p)` has no else, so the loop
\* goes on with the next path.
AfterOpenFailure(i) == i + 1

\* lines 223-225: File::open on the current path
LoadOpen ==
    /\ mpc = "loading"
    /\ li <= Len(Paths)
    /\ ~lopen
    /\ IF openable[Paths[li]]
       THEN /\ lopen' = TRUE
            /\ UNCHANGED li
       ELSE /\ li' = AfterOpenFailure(li)
            /\ UNCHANGED lopen
    /\ lpos' = 0
    /\ nreads' = 0
    /\ UNCHANGED << sideVars, pureVars, entries, summary, files, nwrites, cfgVars,
                    since, until, mpc, unitVars, store, lock, echo,
                    serveVars, log >>

\* lines 226-232, one item of reader.lines().flatten() and the loop body.
\* On a directory read fails, lines() yields Err, flatten drops it and asks
\* for the next item, and the reader has not moved.  At the end of the file
\* lines() yields None and the loop goes to the next path.  Otherwise the
\* bytes up to the next line break (or the end of the file) are consumed:
\* undecodable bytes give an Err that flatten drops; a decodable line is
\* parsed, filtered and pushed.
LoadNext ==
    /\ mpc = "loading"
    /\ li <= Len(Paths)
    /\ lopen
    /\ LET f == Paths[li]
           e == LineEnd(f, lpos, Len(files[f]))
           stop == IF e > 0 THEN e ELSE Len(files[f])
           seg == SubSeq(files[f], lpos + 1, stop)
           ln == IF e > 0 THEN StripCR(SubSeq(seg, 1, Len(seg) - 1)) ELSE seg
           r == IF Decodable(ln) THEN Parse(ln) ELSE None IN
       IF isDir[f] THEN
           /\ nreads < MaxReads
           /\ nreads' = nreads + 1
           /\ UNCHANGED << entries, li, lopen, lpos >>
       ELSE IF lpos = Len(files[f]) THEN
           /\ lopen' = FALSE
           /\ li' = li + 1
           /\ nreads' = nreads + 1
           /\ UNCHANGED << entries, lpos >>
       ELSE
           /\ lpos' = stop
           /\ nreads' = nreads + 1
           /\ entries' = IF IsSome(r) /\ within_window(Unwrap(r), since, until)
                         THEN Append(entries, Unwrap(r)) ELSE entries
           /\ UNCHANGED << li, lopen >>
    /\ UNCHANGED << sideVars, pureVars, summary, files, nwrites, cfgVars, since, until,
                    mpc, unitVars, store, lock, echo, serveVars, log >>

\* line 235: load_entries returns the entries
LoadReturn ==
    /\ mpc = "loading"
    /\ li > Len(Paths)
    /\ mpc' = "loaded"
    /\ UNCHANGED << sideVars, pureVars, batchVars, files, nwrites, cfgVars, since,
                    until, unitVars, store, lock, echo, serveVars, log >>

\* main, lines 383-397: summarize, print and export; without a port main
\* returns.
MainSummarize ==
    /\ mpc = "loaded"
    /\ summary' = Some(summarize(entries))
    /\ mpc' = IF cfgServe THEN "seed" ELSE "exited"
    /\ UNCHANGED << sideVars, pureVars, entries, li, lopen, lpos, nreads, files,
                    nwrites, cfgVars, since, until, unitVars, store, lock,
                    echo, serveVars, log >>

\* A main that starts the server without seeding the store.
SeedNothing(old, es) == old

\* line 400: `*state.lock().unwrap() = entries.clone()`
Seed(old, es) == es

\* main, lines 399-401: the store is set to the entries and serve starts.
MainSeed ==
    /\ mpc = "seed"
    /\ store' = Seed(store, entries)
    /\ spc' = "bind"
    /\ mpc' = "serving"
    /\ UNCHANGED << sideVars, pureVars, batchVars, files, nwrites, cfgVars, since,
                    until, unitVars, lock, echo, hpc, data, nsnaps, seen,
                    beginLen, log >>

NextBatch ==
    \/ MainStartBatch
    \/ MainPanicRegex
    \/ LoadOpen
    \/ LoadNext
    \/ LoadReturn
    \/ MainSummarize
    \/ MainSeed
    \/ Bind
    \/ Request
    \/ HandlerLock
    \/ HandlerClone
    \/ HandlerRespond

SpecBatch == InitBatch /\ [][NextBatch]_vars

\* ------------------------------------------- extraction engine and filter
\* The two pure functions every caller uses (lines 227-228 and 316-317):
\* parser.parse(line), then within_window(&entry, &since, &until), applied
\* to a line and a pair of bounds.

\* Lines given to the extraction engine.
FilterLines == { << >>, << "g" >>, << "J" >>, << "F" >>, << "x" >>,
                 << "J", "2" >>, << "J", "9" >>, << "x", "2" >>,
                 << "x", "9" >>, << "g", "F", "4" >> }

\* The instants a bound may be set to (the scale of InstantOf).
Instants == { InstantOf(SinceText), InstantOf("J"), InstantOf(UntilText),
              InstantOf("F") }

FilterBounds == { None } \cup { Some(t) : t \in Instants }

InitFilter ==
    /\ files = [f \in Units |-> << >>]
    /\ openable = [f \in Units |-> TRUE]
    /\ follow = FALSE
    /\ cfgServe = FALSE
    /\ cfgSince = None
    /\ cfgUntil = None
    /\ patternOk = TRUE
    /\ portFree = TRUE
    /\ isDir = [f \in Units |-> FALSE]
    /\ tracePolls = FALSE
    /\ InitRest
    /\ InitSideIdle
    /\ line \in FilterLines
    /\ lo \in FilterBounds
    /\ hi \in FilterBounds
    /\ rec = None
    /\ res = None
    /\ ppc = "input"

\* lines 227 and 316: parser.parse(line)
Extract ==
    /\ ppc = "input"
    /\ rec' = Parse(line)
    /\ ppc' = "parsed"
    /\ UNCHANGED << sideVars, line, lo, hi, res, batchVars, files, nwrites, cfgVars,
                    since, until, mpc, unitVars, store, lock, echo,
                    serveVars, log >>

\* lines 227-228 and 316-317: `if let Some(e)` and within_window
Passes ==
    /\ ppc = "parsed"
    /\ IF IsSome(rec)
       THEN /\ res' = Some(within_window(Unwrap(rec), lo, hi))
            /\ ppc' = "filtered"
       ELSE /\ res' = None
            /\ ppc' = "nomatch"
    /\ UNCHANGED << sideVars, line, lo, hi, rec, batchVars, files, nwrites, cfgVars,
                    since, until, mpc, unitVars, store, lock, echo,
                    serveVars, log >>

NextFilter ==
    \/ Extract
    \/ Passes

SpecFilter == InitFilter /\ [][NextFilter]_vars

\* ------------------------------------------------- one line, two readers
\* The texts of a source line, without its terminator.
LineTexts == FilterLines \cup { << "J", "4" >>, << "F", "2" >>,
                                << "F", "9" >>, << "g", "J" >> }

\* The line terminators: LF and CR LF.
Terminators == { << NL >>, << CR, NL >> }

\* loglyzer at rest: no run of main is in progress.
InitMainIdle ==
    /\ files = [f \in Units |-> << >>]
    /\ openable = [f \in Units |-> TRUE]
    /\ follow = FALSE
    /\ cfgServe = FALSE
    /\ cfgSince = None
    /\ cfgUntil = None
    /\ patternOk = TRUE
    /\ portFree = TRUE
    /\ isDir = [f \in Units |-> FALSE]
    /\ tracePolls = FALSE
    /\ InitRest
    /\ InitIdle

InitLine ==
    /\ InitMainIdle
    /\ InitWsIdle
    /\ InitDbIdle
    /\ InitAggIdle
    /\ InitEchoIdle
    /\ src \in LineTexts
    /\ term \in Terminators
    /\ tailRec = None
    /\ batchRec = None

\* lines 312 and 316: read_line delivers the line with its terminator and
\* the unit parses buf.trim_end_matches('\n').
TailRead ==
    /\ tailRec = None
    /\ tailRec' = Some(Parse(TrimEndNL(src \o term)))
    /\ UNCHANGED << src, term, batchRec, wsVars, dbVars, aggVars, echoVars,
                    pureVars, batchVars, files, nwrites,
                    cfgVars, since, until, mpc, unitVars, store, lock, echo,
                    serveVars, log >>

\* lines 226-227: the loader parses the item reader.lines() yields for the
\* same bytes.
BatchRead ==
    /\ batchRec = None
    /\ batchRec' = Some(Parse(Lines(src \o term)[1]))
    /\ UNCHANGED << src, term, tailRec, wsVars, dbVars, aggVars, echoVars,
                    pureVars, batchVars, files, nwrites,
                    cfgVars, since, until, mpc, unitVars, store, lock, echo,
                    serveVars, log >>

NextLine ==
    \/ TailRead
    \/ BatchRead

SpecLine == InitLine /\ [][NextLine]_vars

\* ------------------------------------- ws_broadcast and ws_dashboard
\* The variables of loglyzer, which these servers do not touch.
mainVars == << pureVars, batchVars, files, nwrites, cfgVars, since, until,
               mpc, unitVars, store, lock, echo, serveVars, log >>

\* What the websocket tasks leave alone.
wsRest == << lineVars, dbVars, aggVars, echoVars, mainVars >>

\* A handshake error path that returns without the decrement.
OnHandshakeErrorLeak(c) == c

\* fetch_add(1, SeqCst) and fetch_sub(1, SeqCst) on the AtomicUsize; a
\* value below 0 stands for the wrap to usize::MAX.
FetchAdd(c) == c + 1

FetchSub(c) == c - 1

\* ws_broadcast 39-45, ws_dashboard 48-55: accept_async failed
OnHandshakeError(c) == FetchSub(c)

\* The frames and events read.next() delivers to the loop.
Frames == {"text", "stats", "close", "end", "error", "ping"}

InitWs ==
    /\ InitMainIdle
    /\ InitLineIdle
    /\ InitDbIdle
    /\ InitAggIdle
    /\ InitEchoIdle
    /\ wsServer \in {"broadcast", "dashboard"}
    /\ wpc = [t \in Tasks |-> "none"]
    /\ conn = 0
    /\ wexit = [t \in Tasks |-> "none"]

\* main: listener.accept() returns a stream and handle_client is spawned.
Accept(t) ==
    /\ wpc[t] = "none"
    /\ wpc' = [wpc EXCEPT ![t] = "spawned"]
    /\ UNCHANGED << wsServer, conn, wexit, wsRest >>

\* stream.peer_addr(): on error the task returns before the counter is
\* touched; otherwise the counter is incremented.
PeerAddr(t) ==
    /\ wpc[t] = "spawned"
    /\ \E ok \in BOOLEAN :
        IF ok
        THEN /\ conn' = FetchAdd(conn)
             /\ wpc' = [wpc EXCEPT ![t] = "handshake"]
             /\ UNCHANGED wexit
        ELSE /\ wpc' = [wpc EXCEPT ![t] = "returned"]
             /\ wexit' = [wexit EXCEPT ![t] = "peer"]
             /\ UNCHANGED conn
    /\ UNCHANGED << wsServer, wsRest >>

\* accept_async(stream).await
Handshake(t) ==
    /\ wpc[t] = "handshake"
    /\ \E ok \in BOOLEAN :
        IF ok
        THEN /\ wpc' = [wpc EXCEPT ![t] = "welcome"]
             /\ UNCHANGED << conn, wexit >>
        ELSE /\ conn' = OnHandshakeError(conn)
             /\ wpc' = [wpc EXCEPT ![t] = "returned"]
             /\ wexit' = [wexit EXCEPT ![t] = "handshake"]
    /\ UNCHANGED << wsServer, wsRest >>

\* write.send(welcome).await
Welcome(t) ==
    /\ wpc[t] = "welcome"
    /\ \E ok \in BOOLEAN :
        IF ok
        THEN /\ wpc' = [wpc EXCEPT ![t] = "loop"]
             /\ UNCHANGED << conn, wexit >>
        ELSE /\ conn' = FetchSub(conn)
             /\ wpc' = [wpc EXCEPT ![t] = "returned"]
             /\ wexit' = [wexit EXCEPT ![t] = "welcome"]
    /\ UNCHANGED << wsServer, wsRest >>

\* select!, first branch: a price update is received and sent to the
\* client; a failed send breaks the loop.
PriceUpdate(t) ==
    /\ wpc[t] = "loop"
    /\ \E delivered \in BOOLEAN :
        IF delivered
        THEN UNCHANGED << wpc, wexit >>
        ELSE /\ wpc' = [wpc EXCEPT ![t] = "exit"]
             /\ wexit' = [wexit EXCEPT ![t] = "send"]
    /\ UNCHANGED << wsServer, conn, wsRest >>

\* select!, second branch: read.next().  A close frame or the end of the
\* stream and a socket error break the loop.  "/stats" is answered with
\* the counter; when that send fails ws_broadcast breaks the loop and
\* ws_dashboard goes on.  Other frames are ignored.
ClientFrame(t) ==
    /\ wpc[t] = "loop"
    /\ \E f \in Frames, delivered \in BOOLEAN :
        CASE f \in {"close", "end"} ->
                 /\ wpc' = [wpc EXCEPT ![t] = "exit"]
                 /\ wexit' = [wexit EXCEPT ![t] = "close"]
          [] f = "error" ->
                 /\ wpc' = [wpc EXCEPT ![t] = "exit"]
                 /\ wexit' = [wexit EXCEPT ![t] = "error"]
          [] f = "stats" /\ ~delivered /\ wsServer = "broadcast" ->
                 /\ wpc' = [wpc EXCEPT ![t] = "exit"]
                 /\ wexit' = [wexit EXCEPT ![t] = "send"]
          [] OTHER -> UNCHANGED << wpc, wexit >>
    /\ UNCHANGED << wsServer, conn, wsRest >>

\* ws_broadcast 108-109, ws_dashboard 108-109: after the loop, the
\* decrement and the return.
Leave(t) ==
    /\ wpc[t] = "exit"
    /\ conn' = FetchSub(conn)
    /\ wpc' = [wpc EXCEPT ![t] = "returned"]
    /\ UNCHANGED << wsServer, wexit, wsRest >>

NextWs ==
    \/ \E t \in Tasks : Accept(t)
    \/ \E t \in Tasks : PeerAddr(t)
    \/ \E t \in Tasks : Handshake(t)
    \/ \E t \in Tasks : Welcome(t)
    \/ \E t \in Tasks : PriceUpdate(t)
    \/ \E t \in Tasks : ClientFrame(t)
    \/ \E t \in Tasks : Leave(t)

SpecWs == InitWs /\ [][NextWs]_vars

\* ------------------------------------------- ws_dashboard: the poller
\* What the poller leaves alone.
dbRest == << lineVars, wsVars, aggVars, echoVars, mainVars >>

\* A comparison that also lets an equal timestamp through.
should_send_again(last, ts) == IF last = None THEN TRUE ELSE Unwrap(last) <= ts

\* last_seen.get(&key).map(|ts| *ts < row.timestamp).unwrap_or(true)
should_send(last, ts) == IF last = None THEN TRUE ELSE Unwrap(last) < ts

InitDb ==
    /\ InitMainIdle
    /\ InitLineIdle
    /\ InitWsIdle
    /\ InitAggIdle
    /\ InitEchoIdle
    /\ dbLatest \in [PairSet -> 0..MaxTs]
    /\ last_seen = [p \in PairSet |-> None]
    /\ qpc = "tick"
    /\ rows = [p \in PairSet |-> 0]
    /\ todo = << >>
    /\ sent = [p \in PairSet |-> << >>]
    /\ failed = FALSE

\* Another program inserts or deletes rows of stock_prices: the latest
\* row of a pair gets any timestamp, or the pair has no row left.
DbChange(p) ==
    /\ qpc # "off"
    /\ \E ts \in 0..MaxTs :
        /\ ts # dbLatest[p]
        /\ dbLatest' = [dbLatest EXCEPT ![p] = ts]
    /\ UNCHANGED << last_seen, qpc, rows, todo, sent, failed, dbRest >>

\* database_poller: ticker.tick().await, then poll_database is called.
Tick ==
    /\ qpc = "tick"
    /\ qpc' = "fetch"
    /\ UNCHANGED << dbLatest, last_seen, rows, todo, sent, failed, dbRest >>

\* poll_database: fetch_all(pool).await? returns the latest row of each
\* pair, or the error with which poll_database returns at once;
\* database_poller logs it and goes back to the ticker.
FetchAll ==
    /\ qpc = "fetch"
    /\ \E ok \in BOOLEAN :
        IF ok
        THEN /\ rows' = dbLatest
             /\ todo' = SelectSeq(Pairs, LAMBDA p : dbLatest[p] # 0)
             /\ qpc' = "rows"
             /\ UNCHANGED failed
        ELSE /\ qpc' = "tick"
             /\ failed' = TRUE
             /\ UNCHANGED << rows, todo >>
    /\ UNCHANGED << dbLatest, last_seen, sent, dbRest >>

\* poll_database: one turn of the loop over the rows, which consumes the
\* row it visits.
VisitRow ==
    /\ qpc = "rows"
    /\ todo # << >>
    /\ LET p == Head(todo)
       IN IF should_send(last_seen[p], rows[p])
          THEN /\ last_seen' = [last_seen EXCEPT ![p] = Some(rows[p])]
               /\ sent' = [sent EXCEPT ![p] = Append(@, rows[p])]
          ELSE UNCHANGED << last_seen, sent >>
    /\ todo' = Tail(todo)
    /\ rows' = [rows EXCEPT ![Head(todo)] = 0]
    /\ UNCHANGED << dbLatest, qpc, failed, dbRest >>

\* poll_database returns Ok(()) after the last row.
PollReturn ==
    /\ qpc = "rows"
    /\ todo = << >>
    /\ qpc' = "tick"
    /\ UNCHANGED << dbLatest, last_seen, rows, todo, sent, failed, dbRest >>

NextDb ==
    \/ \E p \in PairSet : DbChange(p)
    \/ Tick
    \/ FetchAll
    \/ VisitRow
    \/ PollReturn

SpecDb == InitDb /\ [][NextDb]_vars

\* ------------------------------------------------ exo4: the aggregator
\* What the aggregator leaves alone.
aggRest == << lineVars, wsVars, dbVars, echoVars, mainVars >>

\* main: the configured symbols.
Symbols == << "AAPL", "GOOGL", "MSFT" >>

\* The positions at which the aggregator process is alive.
AggAlive == {"connect", "select", "waiting", "fetch", "save_alpha",
             "save_finnhub", "closing"}

\* The first tick of a tokio interval completes at once.
InitAgg ==
    /\ InitMainIdle
    /\ InitLineIdle
    /\ InitWsIdle
    /\ InitDbIdle
    /\ InitEchoIdle
    /\ apc = "connect"
    /\ asym = 0
    /\ ares = << >>
    /\ handler = FALSE
    /\ listening = FALSE
    /\ notified = FALSE
    /\ tickReady = TRUE
    /\ poolClosed = FALSE
    /\ gotSignal = FALSE

\* main: PgPoolOptions::connect(..).await?; on error main returns it.
Connect ==
    /\ apc = "connect"
    /\ \E ok \in BOOLEAN : apc' = IF ok THEN "select" ELSE "failed"
    /\ UNCHANGED << asym, ares, handler, listening, notified, tickReady,
                    poolClosed, gotSignal, aggRest >>

\* main: one evaluation of select!.  Both futures are created anew and
\* polled in an order chosen at random; a branch found ready is taken and
\* the other future is dropped, polled or not.  The first poll of
\* signal::ctrl_c() installs the runtime's SIGINT handler, which stays for
\* the life of the process, and registers a listener that sees only the
\* signals delivered after its registration.
PollSelect ==
    /\ apc = "select"
    /\ \E first \in {"tick", "ctrl_c"} :
        IF first = "tick" /\ tickReady
        THEN /\ apc' = "fetch"
             /\ asym' = 1
             /\ tickReady' = FALSE
             /\ UNCHANGED << handler, listening >>
        ELSE /\ handler' = TRUE
             /\ IF tickReady
                THEN /\ apc' = "fetch"
                     /\ asym' = 1
                     /\ tickReady' = FALSE
                     /\ UNCHANGED listening
                ELSE /\ apc' = "waiting"
                     /\ listening' = TRUE
                     /\ UNCHANGED << asym, tickReady >>
    /\ UNCHANGED << ares, notified, poolClosed, gotSignal, aggRest >>

\* The period of fetch_interval elapses.
TimerElapse ==
    /\ apc \in AggAlive
    /\ ~tickReady
    /\ tickReady' = TRUE
    /\ UNCHANGED << apc, asym, ares, handler, listening, notified,
                    poolClosed, gotSignal, aggRest >>

\* The user presses Ctrl-C.  Without the runtime's handler the default
\* action ends the process; with it, the signal is handed to the
\* registered listener if there is one and to nobody otherwise.
CtrlC ==
    /\ apc \in AggAlive
    /\ gotSignal' = TRUE
    /\ IF ~handler
       THEN /\ apc' = "killed"
            /\ UNCHANGED notified
       ELSE /\ notified' = (notified \/ listening)
            /\ UNCHANGED apc
    /\ UNCHANGED << asym, ares, handler, listening, tickReady, poolClosed,
                    aggRest >>

\* select!, first branch: the tick wakes main and a fetch cycle starts;
\* the ctrl_c() future is dropped.
WakeTick ==
    /\ apc = "waiting"
    /\ tickReady
    /\ apc' = "fetch"
    /\ asym' = 1
    /\ tickReady' = FALSE
    /\ listening' = FALSE
    /\ notified' = FALSE
    /\ UNCHANGED << ares, handler, poolClosed, gotSignal, aggRest >>

\* select!, second branch: the listener wakes main, which breaks the loop.
WakeSignal ==
    /\ apc = "waiting"
    /\ notified
    /\ apc' = "closing"
    /\ listening' = FALSE
    /\ notified' = FALSE
    /\ UNCHANGED << asym, ares, handler, tickReady, poolClosed, gotSignal,
                    aggRest >>

\* fetch_and_save_all: tokio::join! of the two fetches of one symbol.
FetchBoth ==
    /\ apc = "fetch"
    /\ \E alpha \in BOOLEAN, finnhub \in BOOLEAN :
        ares' = << alpha, finnhub >>
    /\ apc' = "save_alpha"
    /\ UNCHANGED << asym, handler, listening, notified, tickReady,
                    poolClosed, gotSignal, aggRest >>

\* fetch_and_save_all: the first result is saved, or its error logged.
SaveAlpha ==
    /\ apc = "save_alpha"
    /\ apc' = "save_finnhub"
    /\ ares' = << ares[2] >>
    /\ UNCHANGED << asym, handler, listening, notified, tickReady,
                    poolClosed, gotSignal, aggRest >>

\* fetch_and_save_all: the second result is saved, or its error logged;
\* then the next symbol, or the end of the cycle and the next select!.
SaveFinnhub ==
    /\ apc = "save_finnhub"
    /\ ares' = << >>
    /\ IF asym < Len(Symbols)
       THEN /\ asym' = asym + 1
            /\ apc' = "fetch"
       ELSE /\ asym' = 0
            /\ apc' = "select"
    /\ UNCHANGED << handler, listening, notified, tickReady, poolClosed,
                    gotSignal, aggRest >>

\* main: pool.close().await, then Ok(()).
ClosePool ==
    /\ apc = "closing"
    /\ poolClosed' = TRUE
    /\ apc' = "done"
    /\ UNCHANGED << asym, ares, handler, listening, notified, tickReady,
                    gotSignal, aggRest >>

NextAgg ==
    \/ Connect
    \/ PollSelect
    \/ TimerElapse
    \/ CtrlC
    \/ WakeTick
    \/ WakeSignal
    \/ FetchBoth
    \/ SaveAlpha
    \/ SaveFinnhub
    \/ ClosePool

\* The runtime runs main whenever it can go on and time passes; a
\* listener that is woken again and again is served.  Nothing obliges the
\* user to press Ctrl-C.
FairAggregator ==
    /\ InitAgg
    /\ [][NextAgg]_vars
    /\ WF_vars(Connect)
    /\ WF_vars(PollSelect)
    /\ WF_vars(TimerElapse)
    /\ WF_vars(WakeTick)
    /\ SF_vars(WakeSignal)
    /\ WF_vars(FetchBoth)
    /\ WF_vars(SaveAlpha)
    /\ WF_vars(SaveFinnhub)
    /\ WF_vars(ClosePool)

\* ------------------------------------------------- ws_echo: the handler
\* What the echo handler leaves alone.
echoRest == << lineVars, wsVars, dbVars, aggVars, mainVars >>

\* Message::Text("Welcome to the echo server")
WelcomeText == "Welcome to the echo server"

\* The texts a client sends; it may send the welcome text itself.
ClientTexts == {"a", WelcomeText}

\* What read.next().await yields: a text, another data or control frame,
\* a close frame, an error, or None at the end of the stream.
EchoFrames == {"text", "binary", "ping", "pong", "close", "error", "end"}

\* A handler that answers a text with nothing.
Swallow(w, text) == w

\* write.send(Message::Text(text)) that succeeded: the text read goes out
\* as it came in.
SendBack(w, text) == Append(w, text)

InitEcho ==
    /\ InitMainIdle
    /\ InitLineIdle
    /\ InitWsIdle
    /\ InitDbIdle
    /\ InitAggIdle
    /\ epc = "peer"
    /\ etext = None
    /\ nframes = 0
    /\ heard = << >>
    /\ wire = << >>
    /\ lastFrame = "none"
    /\ eexit = "none"

\* stream.peer_addr(): on error the handler returns.
EchoPeerAddr ==
    /\ epc = "peer"
    /\ \E ok \in BOOLEAN :
        IF ok
        THEN /\ epc' = "handshake"
             /\ UNCHANGED eexit
        ELSE /\ epc' = "returned"
             /\ eexit' = "peer"
    /\ UNCHANGED << etext, nframes, heard, wire, lastFrame, echoRest >>

\* accept_async(stream).await: on error the handler returns.
EchoHandshake ==
    /\ epc = "handshake"
    /\ \E ok \in BOOLEAN :
        IF ok
        THEN /\ epc' = "welcome"
             /\ UNCHANGED eexit
        ELSE /\ epc' = "returned"
             /\ eexit' = "handshake"
    /\ UNCHANGED << etext, nframes, heard, wire, lastFrame, echoRest >>

\* write.send(welcome).await: on error the handler returns.
SendWelcome ==
    /\ epc = "welcome"
    /\ \E ok \in BOOLEAN :
        IF ok
        THEN /\ wire' = Append(wire, WelcomeText)
             /\ epc' = "read"
             /\ UNCHANGED eexit
        ELSE /\ epc' = "returned"
             /\ eexit' = "welcome"
             /\ UNCHANGED wire
    /\ UNCHANGED << etext, nframes, heard, lastFrame, echoRest >>

\* read.next().await and the match on what it yields.
ReadNext ==
    /\ epc = "read"
    /\ nframes < MaxFrames
    /\ nframes' = nframes + 1
    /\ \E f \in EchoFrames, text \in ClientTexts :
        /\ lastFrame' = f
        /\ CASE f = "text" ->
                    /\ etext' = Some(text)
                    /\ heard' = Append(heard, text)
                    /\ epc' = "send"
                    /\ UNCHANGED eexit
             [] f \in {"close", "error", "end"} ->
                    /\ epc' = "returned"
                    /\ eexit' = f
                    /\ UNCHANGED << etext, heard >>
             [] OTHER -> UNCHANGED << etext, heard, epc, eexit >>
    /\ UNCHANGED << wire, echoRest >>

\* write.send(Message::Text(text)).await: a failed send breaks the loop.
SendEcho ==
    /\ epc = "send"
    /\ etext' = None
    /\ \E ok \in BOOLEAN :
        IF ok
        THEN /\ wire' = SendBack(wire, Unwrap(etext))
             /\ epc' = "read"
             /\ UNCHANGED eexit
        ELSE /\ epc' = "returned"
             /\ eexit' = "send"
             /\ UNCHANGED wire
    /\ UNCHANGED << nframes, heard, lastFrame, echoRest >>

NextEcho ==
    \/ EchoPeerAddr
    \/ EchoHandshake
    \/ SendWelcome
    \/ ReadNext
    \/ SendEcho

SpecEcho == InitEcho /\ [][NextEcho]_vars

\* ------------------------------------------------------------ every run
\* main in either mode: cfg.follow decides at line 358.
SpecMain == (Init \/ InitBatch) /\ [][Next \/ NextBatch]_vars

\* ================================================================ claims
\* The entry the extraction engine yields for the byte range of a push.
RecordOf(t) == Parse(TrimEndNL(SubSeq(files[t.u], t.off + 1, t.end)))

\* The first n elements of v are the entries of the first n pushes.
HoldsPushes(v, n) ==
    \A i \in 1..n : i <= Len(v) /\ Some(v[i]) = RecordOf(log[i])

\* The byte range [off, end) of files[u] is one whole terminated line.
WholeLine(u, off, end) ==
    /\ end > off
    /\ files[u][end] = NL
    /\ off = 0 \/ files[u][off] = NL

\* C1: in follow mode a tail unit never parses an unterminated trailing
\* fragment: every buffer handed to the parser ends with a line break, and
\* every record pushed to the store was made from one whole terminated line.
C1_OnlyTerminatedLinesParsed ==
    /\ \A u \in Units : pc[u] \in {"parse", "lock", "push"} =>
           Len(buf[u]) > 0 /\ buf[u][Len(buf[u])] = NL
    /\ \A i \in 1..Len(log) :
           \/ WholeLine(log[i].u, log[i].off, log[i].end)
           \/ log[i].off = startLen[log[i].u] /\ files[log[i].u][log[i].end] = NL

\* C2: a poll leaves the Tail Cursor unchanged or at the offset immediately
\* after a line-break character.
C2_CursorAfterLineBreak ==
    [][\A u \in Units :
          (pc[u] = "read" /\ pc'[u] = "sleep") =>
              \/ pos'[u] = pos[u]
              \/ pos'[u] > 0 /\ files[u][pos'[u]] = NL]_vars

\* C3: appends are atomic and never lost: the store holds exactly one entry
\* per push performed, in the order of the pushes, and a snapshot holds
\* every push that had completed when its request began.
C3_AppendsNeverLost ==
    /\ Len(store) = Len(log)
    /\ HoldsPushes(store, Len(log))
    /\ hpc = "respond" => HoldsPushes(data, beginLen)

\* C3 witness: both tail units have pushed and a snapshot taken after a
\* completed push is being sent.
C3_Witness ==
    /\ hpc = "respond"
    /\ beginLen >= 1
    /\ \E i, j \in 1..Len(log) : log[i].u # log[j].u

\* C4: the store is append-only: of two snapshots taken one after the
\* other the earlier is a prefix of the later, and every snapshot is a
\* prefix of the store.
C4_SnapshotsArePrefixes ==
    /\ IsPrefix(seen, store)
    /\ hpc = "respond" => IsPrefix(seen, data) /\ IsPrefix(data, store)

\* C4 witness: a second snapshot longer than a non-empty first one, the
\* two holding different records.
C4_Witness ==
    /\ hpc = "respond"
    /\ nsnaps = 2
    /\ seen # << >>
    /\ Len(data) > Len(seen)
    /\ data[Len(data)] # data[1]

\* C5: records of one file reach the store in file order: of two pushes of
\* the same unit the earlier one covers the lower byte range, and the store
\* holds their records in that order.
C5_FileOrderInStore ==
    \A i, j \in 1..Len(log) :
        (i < j /\ log[i].u = log[j].u) =>
            /\ log[i].end <= log[j].off
            /\ j <= Len(store)
            /\ Some(store[i]) = RecordOf(log[i])
            /\ Some(store[j]) = RecordOf(log[j])

\* C5 witness: two pushes of one unit with a push of the other unit in
\* between.
C5_Witness ==
    \E i, k, j \in 1..Len(log) :
        i < k /\ k < j /\ log[i].u = log[j].u /\ log[k].u # log[i].u

\* C6: a unit that cannot open its file terminates alone: whatever the
\* number of units that failed to open, the serving interface is not
\* stopped.
C6_OpenFailureIsolated ==
    (\E u \in Units : pc[u] = "returned") => spc # "killed"

C8_CursorMonotonic ==
    [][\A u \in Units : pos'[u] >= pos[u]]_vars

\* C8 witness: a unit has finished a poll that moved its cursor and has
\* started the next poll.
C8_Witness ==
    \E u \in Units : pc[u] = "read" /\ pos[u] > startLen[u] /\ fpos[u] = pos[u]

\* C9: the mutex is held only for one push or one clone: a tail unit holds
\* it only between the lock and the push of line 319, the handler only
\* between the lock and the clone of line 277.
C9_LockOnlyAroundCopy ==
    /\ \A u \in Units : u \in lock => pc[u] = "push"
    /\ Server \in lock => hpc = "clone"

\* C9 witness: a unit holds the mutex while another task waits for it.
C9_Witness ==
    \E u \in Units :
        /\ u \in lock
        /\ hpc = "lock" \/ \E v \in Units \ {u} : pc[v] = "lock"

\* C10: with since = "2024-01-01 00:00" and until = "2024-01-31 23:59" the
\* batch sequence is the one the window [2024-01-01 00:00, 2024-01-31 23:59]
\* yields: no record of 2024-02-01, every record without a timestamp.
C10_WindowExcludesFebruary ==
    (~follow /\ mpc = "loaded" /\ cfgSince = Some(SinceText)
        /\ cfgUntil = Some(UntilText)) =>
        entries = load_entries(Paths, Some(InstantOf(SinceText)),
                               Some(InstantOf(UntilText)))

\* C11: a Record with no timestamp passes the filter under every
\* combination of bounds.
C11_UntimedAlwaysPasses ==
    (ppc = "filtered" /\ ~IsSome(Unwrap(rec).time)) => res = Some(TRUE)

\* C11 witness: an untimed record was filtered with both bounds set.
C11_Witness ==
    /\ ppc = "filtered"
    /\ ~IsSome(Unwrap(rec).time)
    /\ IsSome(lo)
    /\ IsSome(hi)

\* C12: a Record with timestamp T passes exactly when (lower is unset or
\* T >= lower) and (upper is unset or T <= upper).
C12_InclusiveOptionalBounds ==
    (ppc = "filtered" /\ IsSome(Unwrap(rec).time)) =>
        LET T == Unwrap(Unwrap(rec).time) IN
        res = Some((lo = None \/ T >= Unwrap(lo)) /\ (hi = None \/ T <= Unwrap(hi)))

\* C12 witness: a record with timestamp T passed with lower = T = upper.
C12_Witness ==
    /\ ppc = "filtered"
    /\ IsSome(Unwrap(rec).time)
    /\ lo = Unwrap(rec).time
    /\ hi = Unwrap(rec).time
    /\ res = Some(TRUE)

\* The accepted lines of a batch run, as <<path index, line index>>, and
\* their place in the order "by file, then by line".
C13_Line(p) == Lines(files[Paths[p[1]]])[p[2]]

C13_Pairs ==
    { p \in UNION { { << i, k >> : k \in 1..Len(Lines(files[Paths[i]])) } :
                       i \in 1..Len(Paths) } :
        /\ openable[Paths[p[1]]]
        /\ Decodable(C13_Line(p))
        /\ IsSome(Parse(C13_Line(p)))
        /\ within_window(Unwrap(Parse(C13_Line(p))), since, until) }

C13_Before(q, p) == q[1] < p[1] \/ (q[1] = p[1] /\ q[2] < p[2])

C13_Rank(p) == Cardinality({ q \in C13_Pairs : C13_Before(q, p) }) + 1

\* C13: the Batch Loader returns the accepted records in file order and,
\* within a file, in line order; a path that cannot be opened contributes
\* nothing and the records of the other paths are what they would be anyway.
C13_FileThenLineOrder ==
    mpc = "loaded" =>
        /\ Len(entries) = Cardinality(C13_Pairs)
        /\ \A p \in C13_Pairs :
               entries[C13_Rank(p)] = Unwrap(Parse(C13_Line(p)))

C13_Witness ==
    /\ mpc = "loaded"
    /\ ~openable[Paths[1]]
    /\ Len(entries) >= 2
    /\ entries[1] # entries[2]

\* C14: the Batch Loader terminates because every read it makes either
\* consumes bytes of the file or finds its end and moves to the next path,
\* also for a path that opens but cannot be read.
C14_EveryReadAdvances ==
    [][(mpc = "loading" /\ lopen /\ nreads' # nreads) =>
           (lpos' > lpos \/ li' > li)]_vars

\* The pattern matches somewhere in the raw text.
C15_Matched(raw) == FirstMatch(raw, 1) > 0

\* C15: a line the pattern does not match is never a Record: every raw text
\* in the batch sequence, the store, a snapshot and the console echo is
\* matched, the Summary total counts the accepted lines only, and a file of
\* a 200 line, a garbage line and a 404 line gives total 2 with one 200 and
\* one 404.
C15_UnmatchedNeverARecord ==
    /\ \A i \in 1..Len(entries) : C15_Matched(entries[i].raw)
    /\ \A i \in 1..Len(store) : C15_Matched(store[i].raw)
    /\ \A i \in 1..Len(seen) : C15_Matched(seen[i].raw)
    /\ \A u \in Units : \A i \in 1..Len(echo[u]) : C15_Matched(echo[u][i])
    /\ IsSome(summary) => Unwrap(summary).total = Cardinality(C13_Pairs)
    /\ (/\ IsSome(summary)
        /\ openable[Paths[1]]
        /\ files[Paths[1]] = << "J", "2", NL, "g", NL, "F", "4", NL >>
        /\ files[Paths[2]] = << >>)
       => summary = Some([total |-> 2,
                          by_status |-> [c \in {200, 404} |-> 1]])

C15_Witness ==
    /\ IsSome(summary)
    /\ openable[Paths[1]]
    /\ files[Paths[1]] = << "J", "2", NL, "g", NL, "F", "4", NL >>
    /\ files[Paths[2]] = << >>
    /\ spc = "listening"
    /\ Len(seen) = 2

\* C16: when the pattern matches and a group does not convert, there is a
\* Record: raw is the line, the field that failed is absent, the other
\* field is what its text converts to; and the Record without a timestamp
\* passes the filter whatever the bounds.
C16_ConversionFailureKeepsRecord ==
    (ppc \in {"parsed", "filtered"} /\ C15_Matched(line)) =>
        LET k == FirstMatch(line, 1)
            st == IF k < Len(line) THEN line[k + 1] ELSE "" IN
        /\ IsSome(rec)
        /\ Unwrap(rec).raw = line
        /\ line[k] = "x" => Unwrap(rec).time = None
        /\ line[k] = "J" => Unwrap(rec).time = Some(InstantOf("J"))
        /\ st = "9" => Unwrap(rec).status = None
        /\ st = "2" => Unwrap(rec).status = Some(200)
        /\ (ppc = "filtered" /\ line[k] = "x") => res = Some(TRUE)

C16_Witness ==
    /\ ppc = "filtered"
    /\ line = << "x", "2" >>
    /\ Unwrap(rec).status = Some(200)
    /\ IsSome(lo)
    /\ IsSome(hi)
    /\ res = Some(TRUE)

\* The entries that carry a status, by position.
C17_WithStatus == { i \in 1..Len(entries) : IsSome(entries[i].status) }

RECURSIVE C17_Sum(_)
C17_Sum(by) ==
    IF DOMAIN by = {} THEN 0
    ELSE LET c == CHOOSE x \in DOMAIN by : TRUE IN
         by[c] + C17_Sum([x \in DOMAIN by \ {c} |-> by[x]])

\* C17: the Summary of a sequence has its length as total and, for each
\* status that occurs, the number of records with it; records without a
\* status are in no count.  The empty sequence gives total 0 and an empty
\* histogram, k records of status 200 give {200: k}, and the counts add up
\* to the number of records with a status, which is at most the total.
C17_SummaryCounts ==
    IsSome(summary) =>
        LET sm == Unwrap(summary)
            codes == { Unwrap(entries[i].status) : i \in C17_WithStatus } IN
        /\ sm.total = Len(entries)
        /\ DOMAIN sm.by_status = codes
        /\ \A c \in codes :
               sm.by_status[c] =
                   Cardinality({ i \in C17_WithStatus :
                                   Unwrap(entries[i].status) = c })
        /\ entries = << >> => sm = [total |-> 0, by_status |-> << >>]
        /\ (entries # << >> /\ \A i \in 1..Len(entries) :
                                   entries[i].status = Some(200))
           => sm = [total |-> Len(entries),
                    by_status |-> [c \in {200} |-> Len(entries)]]
        /\ C17_Sum(sm.by_status) = Cardinality(C17_WithStatus)
        /\ C17_Sum(sm.by_status) <= sm.total

C17_Witness ==
    /\ IsSome(summary)
    /\ Unwrap(summary).total = 4
    /\ Cardinality(C17_WithStatus) = 2
    /\ Unwrap(summary).by_status = [c \in {200} |-> 2]

\* C18: a serving interface that cannot bind ends the process with an
\* error in follow mode as in batch mode; no tail unit keeps running
\* without a serving interface.
C18_BindFailureFatal == spc = "panicked" => mpc = "aborted"

\* C19: with a pattern that does not compile the process stops at startup:
\* no input file is opened, no tail unit is spawned, the store receives no
\* record and the serving interface does not bind.
C19_BadPatternStopsAtStartup ==
    ~patternOk =>
        /\ mpc \in {"start", "aborted"}
        /\ \A u \in Units : pc[u] = "unspawned"
        /\ ~lopen
        /\ li = 0
        /\ entries = << >>
        /\ store = << >>
        /\ spc = "off"

C19_Witness ==
    /\ ~patternOk
    /\ mpc = "aborted"
    /\ cfgServe
    /\ \E f \in Units : openable[f] /\ files[f] # << >>

\* The bound a text stands for when an unparsable text counts as unset.
C20_Bound(t) ==
    IF t = None \/ t = Some(BadBoundText) THEN None
    ELSE Some(InstantOf(Unwrap(t)))

\* C20: a bound text that cannot be parsed is an unset bound and never
\* stops the run: the batch sequence is the one the window gives with that
\* side open and the other side, when its text is parsable, still applied.
C20_UnparsableBoundIsUnset ==
    (/\ ~follow
     /\ mpc = "loaded"
     /\ Some(BadBoundText) \in {cfgSince, cfgUntil}) =>
        entries = load_entries(Paths, C20_Bound(cfgSince), C20_Bound(cfgUntil))

\* C21: in a follow run with the serving interface, an interrupt that the
\* server takes as its shutdown signal leads to the end of the process: the
\* tail units do not keep it alive.
C21_InterruptEndsProcess ==
    (follow /\ spc \in {"closing", "stopped"}) ~> (mpc \in {"exited", "killed"})

\* The pushes of unit u, in the order it made them.
C22_Pushes(u) == SelectSeq(log, LAMBDA t : t.u = u)

\* The raw text of the record unit u has echoed and is about to push.
C22_InFlight(u) ==
    IF pc[u] \in {"lock", "push"} THEN << TrimEndNL(buf[u]) >> ELSE << >>

\* C22: while tailing, what a unit has echoed is what it has appended: the
\* echoes of a unit are the raw texts of its pushes, one each and in the
\* same order, followed by the record it has echoed and is appending; each
\* of them is matched and inside the window, so a rejected line is in
\* neither; and the store has one entry per push.
C22_EchoedIffAppended ==
    /\ Len(store) = Len(log)
    /\ \A i \in 1..Len(log) : Some(store[i]) = RecordOf(log[i])
    /\ \A u \in Units :
        /\ echo[u] = [i \in 1..Len(C22_Pushes(u)) |->
                         Unwrap(RecordOf(C22_Pushes(u)[i])).raw]
                     \o C22_InFlight(u)
        /\ \A i \in 1..Len(echo[u]) :
               /\ IsSome(Parse(echo[u][i]))
               /\ within_window(Unwrap(Parse(echo[u][i])), since, until)

\* C22 witness: the first unit has consumed an accepted line and a rejected
\* (empty) line, with one echo and one push.
C22_Witness ==
    /\ pc["u1"] = "sleep"
    /\ pos["u1"] = Len(files["u1"])
    /\ files["u1"] = Backlog("u1") \o << "J", NL, NL >>
    /\ Len(echo["u1"]) = 1
    /\ Len(C22_Pushes("u1")) = 1

\* C23: a run is a follow run or a batch run, never both: in a follow run
\* the loader and the aggregator do not run, there is no Summary and the
\* store is empty until the first push; in a batch run no tail unit is
\* spawned.
C23_ModesExclusive ==
    /\ follow =>
        /\ mpc \notin {"loading", "loaded", "seed", "serving"}
        /\ li = 0
        /\ ~lopen
        /\ entries = << >>
        /\ summary = None
        /\ log = << >> => store = << >>
    /\ ~follow =>
        /\ mpc # "join"
        /\ \A u \in Units : pc[u] = "unspawned" /\ echo[u] = << >>
        /\ log = << >>

C23_Witness ==
    /\ follow
    /\ mpc = "join"
    /\ summary = None
    /\ store # << >>
    /\ seen # << >>

\* C24: within one poll a tail unit reads no byte beyond the length the
\* file had when the poll began.
C24_ReadsBoundedByPollStart ==
    tracePolls =>
        \A u \in Units :
            pc[u] \in {"read", "parse", "lock", "push"} =>
                rpos[u] <= pollLen[u]

\* C25: in a batch run with the serving interface the store is seeded once,
\* with the loader's output, before the server starts: it is empty before,
\* it is that output from then on, and every snapshot taken or served is
\* that output.
C25_SeededOnceFromLoader ==
    ~follow =>
        /\ spc = "off" => store = << >>
        /\ spc # "off" => store = entries
        /\ hpc = "respond" => data = entries
        /\ ((nsnaps >= 1 /\ hpc = "idle") \/ nsnaps >= 2) => seen = entries
        /\ log = << >>

C25_Witness ==
    /\ ~follow
    /\ nsnaps = 2
    /\ hpc = "idle"
    /\ seen = entries
    /\ Len(entries) >= 2
    /\ entries[1] # entries[2]

\* The bytes written to unit u's file after its tail started.
C26_Written(u) == SubSeq(files[u], startLen[u] + 1, Len(files[u]))

\* C26: when a unit has consumed its file and the file ends with a line
\* break, the records it pushed are those of the lines written after tail
\* start that match and pass the window: one per line, in order, none
\* twice, none skipped, equal lines counted each.
C26_OneRecordPerLine ==
    \A u \in Units :
        (/\ pc[u] = "sleep"
         /\ pos[u] = Len(files[u])
         /\ C26_Written(u) # << >>
         /\ files[u][Len(files[u])] = NL) =>
            [i \in 1..Len(C22_Pushes(u)) |-> Unwrap(RecordOf(C22_Pushes(u)[i]))]
                = KeepLines(Lines(C26_Written(u)), 1, since, until)

\* C27: the tail unit and the batch loader make the same Record of the same
\* terminated source line, whether it ends with LF or with CR LF.
C27_SameRecordInBothModes ==
    (IsSome(tailRec) /\ IsSome(batchRec)) => tailRec = batchRec

\* The tasks that have incremented the counter and not yet returned.
C28_Live == { t \in Tasks : wpc[t] \in {"handshake", "welcome", "loop", "exit"} }

\* C28: in both websocket servers the connection counter is the number of
\* handle_client tasks that have incremented it and not returned; it never
\* goes below zero and is zero once every client is gone.
C28_CounterIsLiveTasks ==
    /\ conn = Cardinality(C28_Live)
    /\ conn >= 0
    /\ (\A t \in Tasks : wpc[t] \in {"none", "returned"}) => conn = 0

\* C28 witness: every connection was accepted and is gone, by at least
\* three different paths after the increment.
C28_Witness ==
    /\ \A t \in Tasks : wpc[t] = "returned"
    /\ Cardinality({ wexit[t] : t \in Tasks } \ {"peer"}) >= 3
    /\ conn = 0

\* The timestamps broadcast for pair p are strictly increasing and the
\* last of them is the one recorded in last_seen.
C29_Increasing(p) ==
    /\ \A i \in 1..Len(sent[p]) - 1 : sent[p][i] < sent[p][i + 1]
    /\ last_seen[p] = IF sent[p] = << >> THEN None
                      ELSE Some(sent[p][Len(sent[p])])

\* A step that broadcasts for pair p does so with a timestamp beyond the
\* one recorded for p before the step.
C29_OnlyNewer(p) ==
    Len(sent'[p]) > Len(sent[p]) =>
        /\ sent'[p] = Append(sent[p], rows[p])
        /\ last_seen[p] = None \/ Unwrap(last_seen[p]) < rows[p]

\* A poll that fails changes nothing of last_seen and hands control back
\* to the ticker.
C29_FailedPoll ==
    (qpc = "fetch" /\ qpc' # "rows") =>
        /\ last_seen' = last_seen
        /\ sent' = sent
        /\ qpc' \in {"tick", "fetch"}

\* C29: the dashboard poller broadcasts an update for a pair only when its
\* timestamp is strictly greater than the one recorded for the pair, so
\* the timestamps broadcast for a pair strictly increase and an unchanged
\* latest row is not broadcast again; a failed poll leaves last_seen as it
\* was and the poller goes on.
C29_BroadcastOnlyNewer ==
    /\ [](\A p \in PairSet : C29_Increasing(p))
    /\ [][/\ \A p \in PairSet : C29_OnlyNewer(p)
          /\ C29_FailedPoll]_vars

\* C29 witness: after a failed poll and two broadcasts for the first
\* pair, a poll has fetched its latest row unchanged and a newer one for
\* the second pair.
C29_Witness ==
    /\ failed
    /\ qpc = "rows"
    /\ todo = Pairs
    /\ Len(sent["p1"]) = 2
    /\ last_seen["p1"] = Some(rows["p1"])
    /\ Len(sent["p2"]) = 1
    /\ Unwrap(last_seen["p2"]) < rows["p2"]

\* C30: in the periodic aggregator a Ctrl-C that reaches the running
\* program, at any time and also during a fetch cycle, is eventually
\* observed: the loop is left, the pool is closed and main returns.
C30_CtrlCObserved == (gotSignal /\ handler) ~> (apc = "done" /\ poolClosed)

\* The texts read whose reply is due: all of them, but for the one being
\* sent back or the one whose send failed.
C31_Answered ==
    IF epc = "send" \/ eexit = "send"
    THEN SubSeq(heard, 1, Len(heard) - 1)
    ELSE heard

====
